---------------------------- MODULE Spec2Model ----------------------------
(***************************************************************************)
(* Workflow editor of orchestrator-ai: the step graph held by App (the     *)
(* workflow, its undo history, the step-editor dialog), the id renumbering *)
(* of WorkflowVisualizer (remapStepIds, moveStep, handleDrop) and the      *)
(* column layout (buildColumns).                                           *)
(*                                                                         *)
(* A step is a record [uid, step_id, depends_on, cfg].  uid stands for the *)
(* descriptive payload of a step (agent_type, action_description, ...),    *)
(* which no structural edit changes; it gives a step its identity across   *)
(* renumbering.  depends_on is the array of predecessor ids, kept as a set *)
(* (no edit puts an id twice into an array, and the editor reads them by   *)
(* membership only; the connector rendering, which reads them entry by     *)
(* entry, is modelled over arrays further down).  cfg                      *)
(* is the identity of the step's input_config object: step objects are     *)
(* copied by spread ({...s}), which shares input_config, and remapStepIds  *)
(* assigns input_config.prior_step_ids in place, so the contents live in   *)
(* the heap cfgs, cfg -> prior_step_ids.                                   *)
(***************************************************************************)
EXTENDS Integers, Sequences, FiniteSets, TLC

VARIABLES
    steps,              \* workflow.steps
    history,            \* history: HistoryEntry[] (each entry a steps array)
    historyIdx,         \* historyIdx, 0-based as in the code
    editingStep,        \* editingStep (NoStep = null: dialog closed)
    isNewStep,          \* isNewStep
    insertAfterStepId,  \* insertAfterStepId (Undefined = undefined)
    draggedId,          \* draggedId (Undefined = null)
    cfgs,               \* heap of input_config objects: cfg -> prior_step_ids
    edits,              \* number of updateSteps calls so far
    op,                 \* the last operation that set the workflow
    prev,               \* the graph (by value) before that operation
    layoutSteps,        \* the steps array handed to buildColumns
    columns,            \* the columns buildColumns returned
    rendered,           \* whether buildColumns has run on layoutSteps
    templates,          \* the parsed content of localStorage['workflow_templates']
    now,                \* the last reading of the clock (Date.now(), in ms)
    result,             \* the last store call's return value: <<>> is null
    file,               \* the JSON text last exported: <<>> is none
    storeOps,           \* number of store calls so far
    storeOp,            \* the last store call and its arguments
    prevTemplates,      \* the store content before that call
    nodeRects,          \* nodeRects: the step ids that have a cached card position
    dataSteps,          \* the data.steps a render of the connectors reads
    connectorPaths,     \* connectorPaths: the edges that render emitted
    drawn,              \* whether connectorPaths has been computed
    isLoading,          \* isLoading: a generation request is pending
    error,              \* error (NoError = null)
    generations,        \* number of workflows asked for (generated or loaded) so far
    response,           \* what the last settled generation call got back
    activeNav,          \* activeNav: "execution" or "workflow" (the other pages are idle)
    monitor,            \* the mounted ExecutionMonitor instance (0: none is mounted)
    mounts,             \* number of ExecutionMonitor instances mounted so far
    execution_status,   \* uid -> execution_status of the current step objects ("" = unset)
    timing_logic,       \* uid -> timing_logic of the step ("Manual" or "Auto")
    logs,               \* logs of the mounted monitor: step_id -> status
    isRunning,          \* isRunning of the mounted monitor
    waitingForManual,   \* waitingForManual of the mounted monitor (Undefined = null)
    manualInputRef,     \* manualInputRef.current of every instance: instance -> ids
    runs,               \* the handleStart calls so far, each at its await
    stopped             \* Stop was pressed and Run has not been pressed since

editorVars == <<steps, history, historyIdx, editingStep, isNewStep,
                insertAfterStepId, draggedId, cfgs, edits, op, prev>>
layoutVars == <<layoutSteps, columns, rendered>>
storeVars == <<templates, now, result, file, storeOps, storeOp, prevTemplates>>
connectorVars == <<nodeRects, dataSteps, connectorPaths, drawn>>
generateVars == <<isLoading, error, generations, response>>
runVars == <<activeNav, monitor, mounts, execution_status, timing_logic, logs,
             isRunning, waitingForManual, manualInputRef, runs, stopped>>
vars == <<steps, history, historyIdx, editingStep, isNewStep,
          insertAfterStepId, draggedId, cfgs, edits, op, prev,
          layoutSteps, columns, rendered,
          templates, now, result, file, storeOps, storeOp, prevTemplates,
          nodeRects, dataSteps, connectorPaths, drawn,
          isLoading, error, generations, response,
          activeNav, monitor, mounts, execution_status, timing_logic, logs,
          isRunning, waitingForManual, manualInputRef, runs, stopped>>

(***************************************************************************)
(* Bounds of the model.                                                    *)
(***************************************************************************)
MaxSteps == 3
MaxEdits == 2
MaxToggles == 1
MaxLayoutSteps == 5
MaxTemplates == 3
MaxVersions == 3
MaxClock == 3
MaxStoreOps == 4
MaxCopies == 1
MaxConnectorSteps == 3
MaxDeps == 2
MaxGenerations == 1
MaxRunSteps == 3
MaxRuns == 2
MaxMounts == 2

(***************************************************************************)
(* Program constants.                                                      *)
(***************************************************************************)
HistoryLimit == 50

Undefined == -1

editMode == TRUE

NoStep == [uid |-> 0, step_id |-> 0, depends_on |-> {}, cfg |-> 0]

NoOp == [kind |-> "none", arg |-> Undefined, arg2 |-> Undefined]

Min(a, b) == IF a < b THEN a ELSE b

SetMax(S) == IF S = {} THEN 0 ELSE CHOOSE x \in S : \A y \in S : y <= x

Range(f) == {f[i] : i \in DOMAIN f}

(***************************************************************************)
(* Array helpers, 0-based indices as in the code.                          *)
(***************************************************************************)
\* arr.findIndex(s => s.step_id === id): first match, -1 when none
FindIndex(arr, id) ==
    LET hits == {i \in 1..Len(arr) : arr[i].step_id = id}
    IN  IF hits = {} THEN -1 ELSE (CHOOSE i \in hits : \A j \in hits : i <= j) - 1

\* copy of arr with arr.splice(at, 1) applied
RemoveAt(arr, at) ==
    [i \in 1..(Len(arr) - 1) |-> IF i <= at THEN arr[i] ELSE arr[i + 1]]

\* an insertion that ignores the position and appends
AppendAt(arr, at, x) == Append(arr, x)

\* copy of arr with arr.splice(at, 0, x) applied (at is clamped to the length)
InsertAt(arr, at, x) ==
    LET a == Min(at, Len(arr))
    IN  [i \in 1..(Len(arr) + 1) |->
            IF i <= a THEN arr[i] ELSE IF i = a + 1 THEN x ELSE arr[i - 1]]

\* copy of arr with the elements at 0-based i and j exchanged
Swap(arr, i, j) ==
    [k \in 1..Len(arr) |->
        IF k = i + 1 THEN arr[j + 1] ELSE IF k = j + 1 THEN arr[i + 1] ELSE arr[k]]

(***************************************************************************)
(* The graph by value: every step with the prior_step_ids its input_config *)
(* holds in heap h.                                                        *)
(***************************************************************************)
Resolve(arr, h) ==
    [i \in 1..Len(arr) |->
        [uid |-> arr[i].uid, step_id |-> arr[i].step_id,
         depends_on |-> arr[i].depends_on, prior_step_ids |-> h[arr[i].cfg]]]

Graph == Resolve(steps, cfgs)

\* the input_config objects and the payloads still referenced
LiveCfgs(s, hist, ed) ==
    {s[i].cfg : i \in 1..Len(s)}
        \cup UNION {{hist[j][i].cfg : i \in 1..Len(hist[j])} : j \in 1..Len(hist)}
        \cup (IF ed = NoStep THEN {} ELSE {ed.cfg})

UsedUids ==
    {steps[i].uid : i \in 1..Len(steps)}
        \cup UNION {{history[j][i].uid : i \in 1..Len(history[j])} : j \in 1..Len(history)}
        \cup {prev[i].uid : i \in 1..Len(prev)}
        \cup (IF editingStep = NoStep THEN {} ELSE {editingStep.uid})

Fresh(used) == CHOOSE n \in 1..(Cardinality(used) + 1) : n \notin used /\ \A m \in 1..(n - 1) : m \in used

\* heap h restricted to the objects that are still reachable
Collect(h, s, hist, ed) == [c \in LiveCfgs(s, hist, ed) |-> h[c]]

(***************************************************************************)
(* remapStepIds (WorkflowVisualizer.tsx 428-443)                           *)
(***************************************************************************)
\* idMap: steps.forEach((s, i) => idMap.set(s.step_id, i + 1)); a later set wins
IdMap(arr) ==
    [id \in {arr[i].step_id : i \in 1..Len(arr)} |->
        SetMax({i \in 1..Len(arr) : arr[i].step_id = id})]

\* remapping that leaves every reference as it was
MapIdsNoRemap(ids, idMap) == ids

\* ids.map(id => idMap.get(id) || id)
MapIds(ids, idMap) ==
    {IF id \in DOMAIN idMap THEN idMap[id] ELSE id : id \in ids}

\* the in-place assignments newS.input_config.prior_step_ids = ..., step by step
RECURSIVE RemapCfgs(_, _, _, _)
RemapCfgs(arr, i, idMap, h) ==
    IF i > Len(arr) THEN h
    ELSE RemapCfgs(arr, i + 1, idMap,
                   [h EXCEPT ![arr[i].cfg] = MapIds(h[arr[i].cfg], idMap)])

\* the returned array: {...s, step_id: i + 1} with depends_on remapped
RemapSteps(arr) ==
    [i \in 1..Len(arr) |->
        [arr[i] EXCEPT !.step_id = i, !.depends_on = MapIds(arr[i].depends_on, IdMap(arr))]]

(***************************************************************************)
(* updateSteps and pushHistory (App, README.md 534-562)                    *)
(***************************************************************************)
\* an update that keeps the ids the steps came with
ReindexKeepIds(arr) == arr

\* steps.map((s, i) => ({ ...s, step_id: i + 1 }))
Reindex(arr) == [i \in 1..Len(arr) |-> [arr[i] EXCEPT !.step_id = i]]

\* [...prev.slice(0, historyIdx + 1), { steps }].slice(-50)
PushedHistory(hist, idx, entry) ==
    LET appended == Append(SubSeq(hist, 1, idx + 1), entry)
        n == Len(appended)
    IN  IF n <= HistoryLimit THEN appended
        ELSE SubSeq(appended, n - HistoryLimit + 1, n)

\* an index that follows every push
PushedIdxUncapped(idx) == idx + 1

\* Math.min(prev + 1, 49)
PushedIdx(idx) == Min(idx + 1, HistoryLimit - 1)

\* updateSteps(newSteps) with heap h as the handler left it; ed is the
\* dialog's step afterwards
UpdateSteps(newSteps, h, ed, o) ==
    /\ edits < MaxEdits
    /\ edits' = edits + 1
    /\ steps' = Reindex(newSteps)
    /\ history' = PushedHistory(history, historyIdx, steps)
    /\ historyIdx' = PushedIdx(historyIdx)
    /\ cfgs' = Collect(h, steps', history', ed)
    /\ editingStep' = ed
    /\ op' = o
    /\ prev' = Graph

(***************************************************************************)
(* Initial state: a loaded workflow with dense ids whose references name   *)
(* earlier steps (handleNewWorkflow gives the empty one), one history      *)
(* entry, index 0.                                                         *)
(***************************************************************************)
InitGraphs ==
    UNION {
        {[i \in 1..n |-> [uid |-> i, step_id |-> i, depends_on |-> d[i], cfg |-> i]]
            : d \in {e \in [1..n -> SUBSET (1..n)] : \A i \in 1..n : e[i] \subseteq 1..(i - 1)}}
        : n \in 0..MaxSteps}

EditorInitAt(g, h) ==
    /\ steps = g
    /\ cfgs = h
    /\ history = <<g>>
    /\ historyIdx = 0
    /\ editingStep = NoStep
    /\ isNewStep = FALSE
    /\ insertAfterStepId = Undefined
    /\ draggedId = Undefined
    /\ edits = 0
    /\ op = NoOp
    /\ prev = <<>>

LayoutIdle ==
    /\ layoutSteps = <<>>
    /\ columns = <<>>
    /\ rendered = FALSE

NoStoreOp ==
    [kind |-> "none", id |-> 0, versionId |-> 0, name |-> <<>>, workflow |-> "",
     changeNote |-> <<>>, json |-> <<>>]

\* localStorage holds no 'workflow_templates' item: load() returns []
StoreInit ==
    /\ templates = <<>>
    /\ now = 1
    /\ result = <<>>
    /\ file = <<>>
    /\ storeOps = 0
    /\ storeOp = NoStoreOp
    /\ prevTemplates = <<>>

\* WorkflowVisualizer mounts with no cached card position; nothing is drawn
ConnectorsIdle ==
    /\ nodeRects = {}
    /\ dataSteps = <<>>
    /\ connectorPaths = <<>>
    /\ drawn = FALSE

NoError == ""

NoResponse == [kind |-> "none", graph |-> <<>>]

\* the execution page is not open and no run was started
RunIdle ==
    /\ activeNav = "workflow"
    /\ monitor = 0
    /\ mounts = 0
    /\ execution_status = <<>>
    /\ timing_logic = <<>>
    /\ logs = <<>>
    /\ isRunning = FALSE
    /\ waitingForManual = Undefined
    /\ manualInputRef = <<>>
    /\ runs = <<>>
    /\ stopped = FALSE

\* App mounts with isLoading false and error null; no request was made
GenerateIdle ==
    /\ isLoading = FALSE
    /\ error = NoError
    /\ generations = 0
    /\ response = NoResponse

Init ==
    /\ \E g \in InitGraphs :
        \E h \in [1..Len(g) -> SUBSET (1..MaxSteps)] :
            /\ \A i \in 1..Len(g) : h[i] \subseteq 1..(i - 1)
            /\ EditorInitAt(g, h)
    /\ LayoutIdle
    /\ StoreInit
    /\ ConnectorsIdle
    /\ GenerateIdle
    /\ RunIdle

(***************************************************************************)
(* Editing operations                                                      *)
(***************************************************************************)
\* WorkflowVisualizer.moveStep(index, dir)
moveStep(index, dir) ==
    LET ti == index + dir
        swapped == Swap(steps, index, ti)
    IN  /\ editingStep = NoStep
        /\ draggedId = Undefined
        /\ index \in 0..(Len(steps) - 1)
        /\ ~(ti < 0 \/ ti >= Len(steps))
        /\ UpdateSteps(RemapSteps(swapped),
                       RemapCfgs(swapped, 1, IdMap(swapped), cfgs), NoStep,
                       [kind |-> "move", arg |-> index, arg2 |-> ti])
        /\ UNCHANGED <<isNewStep, insertAfterStepId, draggedId>>
        /\ UNCHANGED <<layoutVars, storeVars, connectorVars, generateVars, runVars>>

\* App.handleDeleteStep(stepId)
handleDeleteStep(stepId) ==
    /\ editingStep = NoStep
    /\ draggedId = Undefined
    /\ UpdateSteps(SelectSeq(steps, LAMBDA s : s.step_id # stepId), cfgs, NoStep,
                   [kind |-> "delete", arg |-> stepId, arg2 |-> Undefined])
    /\ UNCHANGED <<isNewStep, insertAfterStepId, draggedId>>
    /\ UNCHANGED <<layoutVars, storeVars, connectorVars, generateVars, runVars>>

\* WorkflowVisualizer.handleDragStart(e, stepId)
handleDragStart(stepId) ==
    /\ editingStep = NoStep
    /\ draggedId = Undefined
    /\ editMode
    /\ edits < MaxEdits
    /\ draggedId' = stepId
    /\ UNCHANGED <<steps, history, historyIdx, editingStep, isNewStep,
                   insertAfterStepId, cfgs, edits, op, prev>>
    /\ UNCHANGED <<layoutVars, storeVars, connectorVars, generateVars, runVars>>

\* WorkflowVisualizer.handleDrop(e, targetStepId)
handleDrop(targetStepId) ==
    LET sourceIdx == FindIndex(steps, draggedId)
        targetIdx == FindIndex(steps, targetStepId)
        moved == InsertAt(RemoveAt(steps, sourceIdx), targetIdx, steps[sourceIdx + 1])
    IN  /\ editingStep = NoStep
        /\ draggedId' = Undefined
        /\ IF ~editMode \/ draggedId = Undefined \/ draggedId = targetStepId
              \/ sourceIdx = -1 \/ targetIdx = -1
           THEN /\ draggedId # Undefined
                /\ UNCHANGED <<steps, history, historyIdx, editingStep, cfgs, edits, op, prev>>
           ELSE UpdateSteps(RemapSteps(moved),
                            RemapCfgs(moved, 1, IdMap(moved), cfgs), NoStep,
                            [kind |-> "drop", arg |-> sourceIdx, arg2 |-> targetIdx])
        /\ UNCHANGED <<isNewStep, insertAfterStepId>>
        /\ UNCHANGED <<layoutVars, storeVars, connectorVars, generateVars, runVars>>

\* App.handleAddStep(insertAfterStepId): opens the dialog on a new step
handleAddStep(anchor) ==
    LET maxId == SetMax({steps[i].step_id : i \in 1..Len(steps)} \cup {0})
        newStepId == IF anchor # Undefined THEN anchor + 1 ELSE maxId + 1
        c == Fresh(DOMAIN cfgs)
        newStep == [uid |-> Fresh(UsedUids), step_id |-> newStepId,
                    depends_on |-> IF anchor # Undefined THEN {anchor}
                                   ELSE IF maxId > 0 THEN {maxId} ELSE {},
                    cfg |-> c]
    IN  /\ editingStep = NoStep
        /\ draggedId = Undefined
        /\ Len(steps) < MaxSteps
        /\ edits < MaxEdits
        /\ editingStep' = newStep
        /\ isNewStep' = TRUE
        /\ insertAfterStepId' = anchor
        /\ cfgs' = [x \in DOMAIN cfgs \cup {c} |-> IF x = c THEN {} ELSE cfgs[x]]
        /\ UNCHANGED <<steps, history, historyIdx, draggedId, edits, op, prev>>
        /\ UNCHANGED <<layoutVars, storeVars, connectorVars, generateVars, runVars>>

\* App.openEditStep(step): opens the dialog on a copy of an existing step
openEditStep(step) ==
    /\ editingStep = NoStep
    /\ draggedId = Undefined
    /\ edits < MaxEdits
    /\ editingStep' = step
    /\ isNewStep' = FALSE
    /\ insertAfterStepId' = Undefined
    /\ UNCHANGED <<steps, history, historyIdx, draggedId, cfgs, edits, op, prev>>
    /\ UNCHANGED <<layoutVars, storeVars, connectorVars, generateVars, runVars>>

\* the dialog's onClose: setEditingStep(null)
onClose ==
    /\ editingStep # NoStep
    /\ editingStep' = NoStep
    /\ cfgs' = Collect(cfgs, steps, history, NoStep)
    /\ UNCHANGED <<steps, history, historyIdx, isNewStep, insertAfterStepId,
                   draggedId, edits, op, prev>>
    /\ UNCHANGED <<layoutVars, storeVars, connectorVars, generateVars, runVars>>

\* StepEditor: the ids the dialog's toggles can add or remove.  The toggles
\* are offered for allSteps.filter(s => s.step_id < edited.step_id); the
\* Step ID field of a new step is free, so any step can be made a predecessor.
Togglable ==
    IF isNewStep THEN {steps[i].step_id : i \in 1..Len(steps)}
    ELSE {steps[i].step_id : i \in 1..Len(steps)} \cap 1..(editingStep.step_id - 1)

\* membership of every id of toggled flipped in ids (one click per id)
Toggle(ids, toggled) == (ids \ toggled) \cup (toggled \ ids)

\* App.handleSaveStep(saved): saved is the dialog's edited copy of
\* editingStep, after clicks on the depends_on toggles of depClicks and, when
\* newCfg, with a new input_config object (updateInput) after clicks on the
\* prior_step_ids toggles of priorClicks.  A new step's own step_id is not
\* read by the handler.
handleSaveStep(depClicks, newCfg, priorClicks) ==
    LET c == IF newCfg THEN Fresh(DOMAIN cfgs) ELSE editingStep.cfg
        saved == [editingStep EXCEPT
                    !.depends_on = Toggle(editingStep.depends_on, depClicks),
                    !.cfg = c]
        h == IF newCfg
             THEN [x \in DOMAIN cfgs \cup {c} |->
                      IF x = c THEN Toggle(cfgs[editingStep.cfg], priorClicks)
                      ELSE cfgs[x]]
             ELSE cfgs
        idx == FindIndex(steps, insertAfterStepId)
        newSteps ==
            IF isNewStep
            THEN IF insertAfterStepId # Undefined
                 THEN InsertAt(steps, idx + 1, saved)
                 ELSE Append(steps, saved)
            ELSE [i \in 1..Len(steps) |->
                     IF steps[i].step_id = saved.step_id THEN saved ELSE steps[i]]
    IN  /\ editingStep # NoStep
        /\ depClicks \subseteq Togglable
        /\ priorClicks \subseteq Togglable
        /\ Cardinality(depClicks) + Cardinality(priorClicks) <= MaxToggles
        /\ newCfg \/ priorClicks = {}
        /\ UpdateSteps(newSteps, h, NoStep,
                       [kind |-> IF isNewStep THEN "insert" ELSE "save",
                        arg |-> IF isNewStep THEN insertAfterStepId ELSE saved.step_id,
                        arg2 |-> IF isNewStep THEN idx + 1 ELSE Undefined])
        /\ UNCHANGED <<isNewStep, insertAfterStepId, draggedId>>
        /\ UNCHANGED <<layoutVars, storeVars, connectorVars, generateVars, runVars>>

\* App.undo
undo ==
    /\ editingStep = NoStep
    /\ draggedId = Undefined
    /\ ~(historyIdx <= 0)
    /\ steps' = history[historyIdx]
    /\ historyIdx' = historyIdx - 1
    /\ op' = [kind |-> "undo", arg |-> Undefined, arg2 |-> Undefined]
    /\ prev' = Graph
    /\ cfgs' = Collect(cfgs, steps', history, NoStep)
    /\ UNCHANGED <<history, editingStep, isNewStep, insertAfterStepId, draggedId, edits>>
    /\ UNCHANGED <<layoutVars, storeVars, connectorVars, generateVars, runVars>>

\* App.redo
redo ==
    /\ editingStep = NoStep
    /\ draggedId = Undefined
    /\ ~(historyIdx >= Len(history) - 1)
    /\ steps' = history[historyIdx + 2]
    /\ historyIdx' = historyIdx + 1
    /\ op' = [kind |-> "redo", arg |-> Undefined, arg2 |-> Undefined]
    /\ prev' = Graph
    /\ cfgs' = Collect(cfgs, steps', history, NoStep)
    /\ UNCHANGED <<history, editingStep, isNewStep, insertAfterStepId, draggedId, edits>>
    /\ UNCHANGED <<layoutVars, storeVars, connectorVars, generateVars, runVars>>

Next ==
    \/ \E index \in 0..(MaxSteps - 1), dir \in {-1, 1} : moveStep(index, dir)
    \/ \E i \in 1..Len(steps) : handleDeleteStep(steps[i].step_id)
    \/ \E i \in 1..Len(steps) : handleDragStart(steps[i].step_id)
    \/ \E i \in 1..Len(steps) : handleDrop(steps[i].step_id)
    \/ \E anchor \in {steps[i].step_id : i \in 1..Len(steps)}
                       \cup (IF steps = <<>> THEN {Undefined} ELSE {}) :
          handleAddStep(anchor)
    \/ \E i \in 1..Len(steps) : openEditStep(steps[i])
    \/ onClose
    \/ \E depClicks \in SUBSET (1..MaxSteps), priorClicks \in SUBSET (1..MaxSteps),
          newCfg \in BOOLEAN : handleSaveStep(depClicks, newCfg, priorClicks)
    \/ undo
    \/ redo

Spec == Init /\ [][Next]_vars

(***************************************************************************)
(* Column layout: buildColumns (WorkflowVisualizer.tsx 55-78), applied to  *)
(* steps [step_id, parallel_group]; "" is an absent (falsy) tag.           *)
(***************************************************************************)
ParallelGroups == {"g", "h"}

LayoutStep == [step_id : 1..MaxLayoutSteps, parallel_group : ParallelGroups \cup {""}]

LayoutInputs ==
    UNION {{[i \in 1..n |-> [step_id |-> i, parallel_group |-> tag[i]]]
               : tag \in [1..n -> ParallelGroups \cup {""}]}
           : n \in 0..MaxLayoutSteps}

\* the while loop, from index i (1-based) with the placed ids and the
\* columns so far
\* a group filter that forgets which steps are already placed
GroupOfIgnoringPlaced(arr, pg, placed) ==
    SelectSeq(arr, LAMBDA s : s.parallel_group = pg)

\* steps.filter(s => s.parallel_group === pg && !placed.has(s.step_id))
GroupOf(arr, pg, placed) ==
    SelectSeq(arr, LAMBDA s : s.parallel_group = pg /\ s.step_id \notin placed)

RECURSIVE BuildColumnsFrom(_, _, _, _)
BuildColumnsFrom(arr, i, placed, cols) ==
    IF ~(i <= Len(arr)) THEN cols
    ELSE LET step == arr[i]
             pg == step.parallel_group
             group == GroupOf(arr, pg, placed)
         IN  IF pg # "" /\ Len(group) > 0
             THEN BuildColumnsFrom(arr, i + Len(group),
                      placed \cup {group[k].step_id : k \in 1..Len(group)},
                      Append(cols, group))
             ELSE IF step.step_id \notin placed
             THEN BuildColumnsFrom(arr, i + 1, placed \cup {step.step_id},
                      Append(cols, <<step>>))
             ELSE BuildColumnsFrom(arr, i + 1, placed, cols)

buildColumns(arr) == BuildColumnsFrom(arr, 1, {}, <<>>)

EditorIdle == EditorInitAt(<<>>, <<>>)

InitColumns ==
    /\ EditorIdle
    /\ layoutSteps \in LayoutInputs
    /\ columns = <<>>
    /\ rendered = FALSE
    /\ StoreInit
    /\ ConnectorsIdle
    /\ GenerateIdle
    /\ RunIdle

\* const columns = buildColumns(data.steps)
Render ==
    /\ ~rendered
    /\ columns' = buildColumns(layoutSteps)
    /\ rendered' = TRUE
    /\ UNCHANGED layoutSteps
    /\ UNCHANGED <<editorVars, storeVars, connectorVars, generateVars, runVars>>

RECURSIVE Flatten(_)
Flatten(cols) == IF cols = <<>> THEN <<>> ELSE Head(cols) \o Flatten(Tail(cols))

\* buildColumns applied again, to the concatenation of the columns it returned
Reflow ==
    /\ rendered
    /\ layoutSteps' = Flatten(columns)
    /\ columns' = buildColumns(layoutSteps')
    /\ UNCHANGED rendered
    /\ UNCHANGED <<editorVars, storeVars, connectorVars, generateVars, runVars>>

NextColumns == Render \/ Reflow

SpecColumns == InitColumns /\ [][NextColumns]_vars

(***************************************************************************)
(* Connector edges (WorkflowVisualizer.tsx 528-547) and the card position  *)
(* cache they read (measureRects, 491-508).  Here a step is a record       *)
(* [step_id, depends_on, auto_depends_on] whose optional arrays are        *)
(* [defined, ids]: ids is the array, entry by entry.  nodeRects holds the  *)
(* ids that have a cached rectangle; the geometry is left out.             *)
(***************************************************************************)
Absent == [defined |-> FALSE, ids |-> <<>>]

Some(ids) == [defined |-> TRUE, ids |-> ids]

\* step.depends_on || (step.auto_depends_on ? step.auto_depends_on : [])
ExplicitDeps(step) ==
    IF step.depends_on.defined THEN step.depends_on.ids
    ELSE IF step.auto_depends_on.defined THEN step.auto_depends_on.ids
    ELSE <<>>

\* explicitDeps.length > 0 ? explicitDeps : (idx > 0 ? [data.steps[idx - 1].step_id] : [])
\* (idx is 1-based here)
Deps(arr, idx) ==
    IF Len(ExplicitDeps(arr[idx])) > 0 THEN ExplicitDeps(arr[idx])
    ELSE IF idx > 1 THEN <<arr[idx - 1].step_id>> ELSE <<>>

\* deps.forEach(depId => { if (fr && tr) connectorPaths.push(...) })
EdgesInto(arr, idx, rects) ==
    LET kept == SelectSeq(Deps(arr, idx),
                          LAMBDA depId : depId \in rects /\ arr[idx].step_id \in rects)
    IN  [k \in 1..Len(kept) |-> [fromId |-> kept[k], toId |-> arr[idx].step_id]]

\* data.steps.forEach((step, idx) => ...), from index idx on
RECURSIVE ConnectorPathsFrom(_, _, _)
ConnectorPathsFrom(arr, idx, rects) ==
    IF idx > Len(arr) THEN <<>>
    ELSE EdgesInto(arr, idx, rects) \o ConnectorPathsFrom(arr, idx + 1, rects)

\* the arrays a step of the drawing can carry, over the ids 1..n
DepArrays(n) ==
    {Absent} \cup {Some(ids) : ids \in UNION {[1..k -> 1..n] : k \in 0..MaxDeps}}

AutoArrays(n) == {Absent} \cup {Some(<<1>>) : x \in 1..Min(n, 1)}

InitConnectors ==
    /\ EditorIdle
    /\ LayoutIdle
    /\ StoreInit
    /\ GenerateIdle
    /\ RunIdle
    /\ \E n \in 0..MaxConnectorSteps :
        /\ \E d \in [1..n -> DepArrays(n)], a \in [1..n -> AutoArrays(n)] :
              dataSteps = [i \in 1..n |->
                  [step_id |-> i, depends_on |-> d[i], auto_depends_on |-> a[i]]]
        /\ nodeRects \in SUBSET (1..n)
    /\ connectorPaths = <<>>
    /\ drawn = FALSE

\* one render of WorkflowVisualizer: connectorPaths built from data.steps
\* and the cached nodeRects
RenderConnectors ==
    /\ ~drawn
    /\ connectorPaths' = ConnectorPathsFrom(dataSteps, 1, nodeRects)
    /\ drawn' = TRUE
    /\ UNCHANGED <<nodeRects, dataSteps>>
    /\ UNCHANGED <<editorVars, layoutVars, storeVars, generateVars, runVars>>

NextConnectors == RenderConnectors

SpecConnectors == InitConnectors /\ [][NextConnectors]_vars

(***************************************************************************)
(* The editor with the card position cache.  Every step of the editor has  *)
(* its own card (its steps carry no parallel_group); a ref of an unmounted *)
(* card is null and skipped, so a measurement sees the ids of the current  *)
(* steps.  The timers of measureRects fire 50 and 250 ms after a change:   *)
(* until then every render reads the positions cached before it.           *)
(***************************************************************************)
\* the increasing array of the ids of a set (remapStepIds sorts)
RECURSIVE SortedArray(_)
SortedArray(ids) ==
    IF ids = {} THEN <<>>
    ELSE LET least == CHOOSE i \in ids : \A j \in ids : i <= j
         IN  <<least>> \o SortedArray(ids \ {least})

\* the editor's steps as the visualizer's data.steps
DataOf(arr) ==
    [i \in 1..Len(arr) |->
        [step_id |-> arr[i].step_id,
         depends_on |-> Some(SortedArray(arr[i].depends_on)),
         auto_depends_on |-> Absent]]

\* measureRects: rects of the mounted cards; kept only when there is one
measureRects ==
    LET rects == {steps[i].step_id : i \in 1..Len(steps)}
    IN  /\ nodeRects' = IF Cardinality(rects) > 0 THEN rects ELSE nodeRects
        /\ UNCHANGED <<dataSteps, connectorPaths, drawn>>
        /\ UNCHANGED <<editorVars, layoutVars, storeVars, generateVars, runVars>>

NextRects == Next \/ measureRects

SpecRects == Init /\ [][NextRects]_vars

(***************************************************************************)
(* Generation (App.handleGenerate, README.md 565-584, and                  *)
(* aiService.generateWithOpenAI, 32-87).  A response of the upstream call  *)
(* is [kind, graph]: "throws" (the request rejects), "empty" (no message   *)
(* content), "unparsable" (text that JSON.parse rejects; graph holds the   *)
(* steps written out before the text breaks off) or "json" (text that      *)
(* parses to a workflow whose steps are graph, by value).  The writes of   *)
(* savePrompt and saveWorkflowToHistory go to localStorage keys no other   *)
(* part of the model reads and are taken to succeed.  handleGenerate is    *)
(* split at its await; edits can be made while the request is pending.     *)
(***************************************************************************)
GenStep(id, deps, prior) ==
    [step_id |-> id, depends_on |-> deps, prior_step_ids |-> prior]

\* the workflows the upstream model can write: nothing constrains them
GeneratedGraphs ==
    {<<GenStep(1, {}, {})>>,
     <<GenStep(1, {}, {}), GenStep(2, {1}, {1})>>,
     <<GenStep(1, {}, {}), GenStep(3, {1}, {})>>,
     <<GenStep(1, {}, {}), GenStep(2, {3}, {})>>}

Responses ==
    {[kind |-> "throws", graph |-> <<>>], [kind |-> "empty", graph |-> <<>>],
     [kind |-> "unparsable", graph |-> <<GenStep(1, {}, {})>>]}
        \cup {[kind |-> "json", graph |-> g] : g \in GeneratedGraphs}

Returned(value) == [ok |-> TRUE, value |-> value, message |-> NoError]

Thrown(message) == [ok |-> FALSE, value |-> <<>>, message |-> message]

\* a parser that returns what it could read of a broken text
ParseTruncated(r) == Returned(r.graph)

\* JSON.parse(text) as WorkflowResult
JSONParse(r) ==
    IF r.kind = "json" THEN Returned(r.graph) ELSE Thrown("SyntaxError")

\* generateWithOpenAI: rethrows what the request or JSON.parse threw, throws
\* on an empty content, returns the parsed text as it is
generateWithOpenAI(r) ==
    IF r.kind = "throws" THEN Thrown("request failed")
    ELSE IF r.kind = "empty" THEN Thrown("No response generated from OpenAI.")
    ELSE JSONParse(r)

\* the step objects of a parsed result: new payloads, new input_config
\* objects (numbered after the ones in use)
ResultSteps(g) ==
    [i \in 1..Len(g) |->
        [uid |-> SetMax(UsedUids \cup {0}) + i, step_id |-> g[i].step_id,
         depends_on |-> g[i].depends_on,
         cfg |-> SetMax(DOMAIN cfgs \cup {0}) + i]]

ResultCfgs(g) ==
    [c \in DOMAIN cfgs \cup {SetMax(DOMAIN cfgs \cup {0}) + i : i \in 1..Len(g)} |->
        IF c \in DOMAIN cfgs THEN cfgs[c]
        ELSE g[c - SetMax(DOMAIN cfgs \cup {0})].prior_step_ids]

\* handleGenerate up to `await generateWorkflow(prompt, provider)`; the
\* button is disabled while isLoading
handleGenerate ==
    /\ ~isLoading
    /\ generations < MaxGenerations
    /\ isLoading' = TRUE
    /\ error' = NoError
    /\ generations' = generations + 1
    /\ UNCHANGED response
    /\ UNCHANGED <<editorVars, layoutVars, storeVars, connectorVars, runVars>>

\* handleGenerate from the await on, when the upstream call settles with r
generateWorkflowSettles(r) ==
    LET res == generateWithOpenAI(r)
    IN  /\ isLoading
        /\ isLoading' = FALSE
        /\ response' = r
        /\ IF res.ok
           THEN /\ steps' = ResultSteps(res.value)
                /\ history' = <<steps'>>
                /\ historyIdx' = 0
                /\ cfgs' = Collect(ResultCfgs(res.value), steps', history', editingStep)
                /\ op' = [kind |-> "generate", arg |-> Undefined, arg2 |-> Undefined]
                /\ prev' = Graph
                /\ UNCHANGED <<editingStep, isNewStep, insertAfterStepId, draggedId, edits>>
                /\ UNCHANGED error
           ELSE /\ error' = res.message
                /\ UNCHANGED editorVars
        /\ UNCHANGED generations
        /\ UNCHANGED <<layoutVars, storeVars, connectorVars, runVars>>

NextGenerate ==
    \/ Next
    \/ handleGenerate
    \/ \E r \in Responses : generateWorkflowSettles(r)

SpecGenerate == Init /\ [][NextGenerate]_vars

(***************************************************************************)
(* New workflow and template loading (App.handleNewWorkflow, README.md     *)
(* 587-603; App.handleLoadTemplate, 658-665), with the editor and the      *)
(* generation.  The initial states are a loaded workflow whose history     *)
(* holds 1 or 50 entries: steps that were saved unchanged 49 times (undo   *)
(* then reaches every index).  A template's workflow comes out of          *)
(* localStorage as whatever was saved or imported there.                   *)
(***************************************************************************)
\* (the step dialog is a full-screen overlay and a drag holds the pointer:
\* the buttons are out of reach meanwhile)
handleNewWorkflow ==
    /\ editingStep = NoStep
    /\ draggedId = Undefined
    /\ steps' = <<>>
    /\ history' = <<steps'>>
    /\ historyIdx' = 0
    /\ cfgs' = Collect(cfgs, steps', history', editingStep)
    /\ op' = [kind |-> "new", arg |-> Undefined, arg2 |-> Undefined]
    /\ prev' = Graph
    /\ UNCHANGED <<editingStep, isNewStep, insertAfterStepId, draggedId, edits>>
    /\ UNCHANGED <<layoutVars, storeVars, connectorVars, generateVars, runVars>>

handleLoadTemplate(wf) ==
    /\ editingStep = NoStep
    /\ draggedId = Undefined
    /\ generations < MaxGenerations
    /\ generations' = generations + 1
    /\ steps' = ResultSteps(wf)
    /\ history' = <<steps'>>
    /\ historyIdx' = 0
    /\ cfgs' = Collect(ResultCfgs(wf), steps', history', editingStep)
    /\ op' = [kind |-> "load", arg |-> Undefined, arg2 |-> Undefined]
    /\ prev' = Graph
    /\ UNCHANGED <<editingStep, isNewStep, insertAfterStepId, draggedId, edits>>
    /\ UNCHANGED <<isLoading, error, response>>
    /\ UNCHANGED <<layoutVars, storeVars, connectorVars, runVars>>

\* the history lengths the initial states have
HistoryLengths == {1, HistoryLimit}

InitHistory ==
    /\ \E n \in {1}, len \in HistoryLengths :
        /\ steps = [i \in 1..n |->
                       [uid |-> i, step_id |-> i, depends_on |-> 1..(i - 1), cfg |-> i]]
        /\ cfgs = [i \in 1..n |-> {}]
        /\ history = [j \in 1..len |-> steps]
        /\ historyIdx = len - 1
    /\ editingStep = NoStep
    /\ isNewStep = FALSE
    /\ insertAfterStepId = Undefined
    /\ draggedId = Undefined
    /\ edits = 0
    /\ op = NoOp
    /\ prev = <<>>
    /\ LayoutIdle
    /\ StoreInit
    /\ ConnectorsIdle
    /\ GenerateIdle
    /\ RunIdle

NextHistory ==
    \/ NextGenerate
    \/ handleNewWorkflow
    \/ \E wf \in GeneratedGraphs : handleLoadTemplate(wf)

SpecHistory == InitHistory /\ [][NextHistory]_vars

(***************************************************************************)
(* Execution runs (ExecutionMonitor, src/unnamed/part_000; mounted by App  *)
(* only on the execution page, README.md 964-966, with onUpdateWorkflow =  *)
(* setWorkflow).  handleStart is an async loop; simulateStep and the loop  *)
(* read the `workflow` of the render in which Run was clicked.  A run is a *)
(* record [wf, st, i, pc, inst]: wf and st are that workflow's steps and   *)
(* their execution_status, i the loop index, pc the await the run is at    *)
(* ("manual": the polling interval; "processing": the 1-3 s timeout;       *)
(* "ended": returned) and inst the monitor instance whose state setters    *)
(* and manualInputRef it holds.  The setters of an unmounted instance do   *)
(* nothing; setWorkflow is App's and always takes effect.  Code between    *)
(* two awaits runs in one step; setWorkflow calls of one step are batched  *)
(* and the last one wins, setLogs calls are functional and accumulate.     *)
(***************************************************************************)
Live(l) == l.inst = monitor

\* workflow.steps[i] of the run's workflow
StepAt(l) == l.wf[l.i + 1]

\* { ...prev, [step_id]: { ...prev[step_id], status } }
SetLog(lg, id, status) ==
    [x \in DOMAIN lg \cup {id} |-> IF x = id THEN status ELSE lg[x]]

\* workflow.steps.forEach(s => { init[s.step_id] = { stepId, status: 'pending' } })
PendingLogs(arr) == [id \in {arr[i].step_id : i \in 1..Len(arr)} |-> "pending"]

\* what a run has set so far in the current step of the model
Effect0(l) ==
    [loop |-> l, logs |-> logs, waiting |-> waitingForManual, running |-> isRunning,
     set |-> FALSE, steps |-> steps, st |-> execution_status]

\* setLogs(...status...) and onUpdateWorkflow({...workflow, steps:
\* workflow.steps.map(s => s.step_id === step.step_id ? {...s, execution_status} : s)})
StatusUpdate(e, status) ==
    LET l == e.loop
        ids == {u \in DOMAIN l.st :
                   \E i \in 1..Len(l.wf) :
                       l.wf[i].uid = u /\ l.wf[i].step_id = StepAt(l).step_id}
    IN  [e EXCEPT !.logs = IF Live(l) THEN SetLog(@, StepAt(l).step_id, status) ELSE @,
                  !.set = TRUE,
                  !.steps = l.wf,
                  !.st = [u \in DOMAIN l.st |-> IF u \in ids THEN status ELSE l.st[u]]]

\* simulateStep from the manual wait's end to the timeout
Running(e) == [StatusUpdate(e, "running") EXCEPT !.loop.pc = "processing"]

\* setIsRunning(false) after the loop
Return(e) ==
    [e EXCEPT !.loop.pc = "ended",
              !.running = IF Live(e.loop) THEN FALSE ELSE @]

\* the for loop at index i: the test, then simulateStep to its first await
Begin(e) ==
    IF ~(e.loop.i < Len(e.loop.wf)) THEN Return(e)
    ELSE IF timing_logic[StepAt(e.loop).uid] = "Manual"
    THEN [e EXCEPT !.loop.pc = "manual",
                   !.waiting = IF Live(e.loop) THEN StepAt(e.loop).step_id ELSE @]
    ELSE Running(e)

\* simulateStep after the timeout, then `if (!success) break` and the next
\* iteration
Finish(e, failed) ==
    IF failed THEN Return(StatusUpdate(e, "failed"))
    ELSE Begin([StatusUpdate(e, "done") EXCEPT !.loop.i = @ + 1])

\* the state after a step of a run
Apply(e, newRuns) ==
    /\ runs' = newRuns
    /\ logs' = e.logs
    /\ waitingForManual' = e.waiting
    /\ isRunning' = e.running
    /\ steps' = e.steps
    /\ execution_status' = e.st
    /\ op' = IF e.set THEN [kind |-> "status", arg |-> Undefined, arg2 |-> Undefined]
             ELSE op
    /\ prev' = IF e.set THEN Graph ELSE prev
    /\ UNCHANGED <<history, historyIdx, editingStep, isNewStep, insertAfterStepId,
                   draggedId, cfgs, edits>>
    /\ UNCHANGED <<activeNav, monitor, mounts, timing_logic>>
    /\ UNCHANGED <<layoutVars, storeVars, connectorVars, generateVars>>

\* Run button (shown when !isRunning): handleStart to its first await
handleStart ==
    /\ activeNav = "execution"
    /\ ~isRunning
    /\ Len(runs) < MaxRuns
    /\ LET l == [wf |-> steps, st |-> execution_status, i |-> 0, pc |-> "start",
                 inst |-> monitor]
           e == Begin([Effect0(l) EXCEPT !.running = TRUE, !.logs = PendingLogs(steps)])
       IN  Apply(e, Append(runs, e.loop))
    /\ stopped' = FALSE
    /\ UNCHANGED manualInputRef

\* Stop button (shown when isRunning): setIsRunning(false)
Stop ==
    /\ activeNav = "execution"
    /\ isRunning
    /\ isRunning' = FALSE
    /\ stopped' = TRUE
    /\ UNCHANGED <<activeNav, monitor, mounts, execution_status, timing_logic, logs,
                   waitingForManual, manualInputRef, runs>>
    /\ UNCHANGED <<editorVars, layoutVars, storeVars, connectorVars, generateVars>>

\* Trigger Step button, shown on the card of the step waitingForManual names
confirmManualStep(stepId) ==
    /\ activeNav = "execution"
    /\ waitingForManual = stepId
    /\ \E i \in 1..Len(steps) : steps[i].step_id = stepId
    /\ manualInputRef' = [manualInputRef EXCEPT ![monitor] = @ \cup {stepId}]
    /\ UNCHANGED <<activeNav, monitor, mounts, execution_status, timing_logic, logs,
                   isRunning, waitingForManual, runs, stopped>>
    /\ UNCHANGED <<editorVars, layoutVars, storeVars, connectorVars, generateVars>>

\* the 200 ms interval of run k finds its step confirmed
intervalFires(k) ==
    /\ runs[k].pc = "manual"
    /\ StepAt(runs[k]).step_id \in manualInputRef[runs[k].inst]
    /\ manualInputRef' =
          [manualInputRef EXCEPT ![runs[k].inst] = @ \ {StepAt(runs[k]).step_id}]
    /\ LET e == Running([Effect0(runs[k]) EXCEPT
                            !.waiting = IF Live(runs[k]) THEN Undefined ELSE @])
       IN  Apply(e, [runs EXCEPT ![k] = e.loop])
    /\ UNCHANGED stopped

\* the processing timeout of run k fires; failed is Math.random() < 0.05
timeoutFires(k, failed) ==
    /\ runs[k].pc = "processing"
    /\ LET e == Finish(Effect0(runs[k]), failed)
       IN  Apply(e, [runs EXCEPT ![k] = e.loop])
    /\ UNCHANGED <<manualInputRef, stopped>>

\* sidebar: the execution page is opened, a new ExecutionMonitor mounts
openExecution ==
    /\ activeNav = "workflow"
    /\ editingStep = NoStep
    /\ draggedId = Undefined
    /\ mounts < MaxMounts
    /\ activeNav' = "execution"
    /\ mounts' = mounts + 1
    /\ monitor' = mounts'
    /\ logs' = PendingLogs(steps)
    /\ isRunning' = FALSE
    /\ waitingForManual' = Undefined
    /\ manualInputRef' = [m \in 1..mounts' |-> IF m = mounts' THEN {} ELSE manualInputRef[m]]
    /\ stopped' = FALSE
    /\ UNCHANGED <<execution_status, timing_logic, runs>>
    /\ UNCHANGED <<editorVars, layoutVars, storeVars, connectorVars, generateVars>>

\* sidebar: the workflow page is opened, the ExecutionMonitor unmounts
leaveExecution ==
    /\ activeNav = "execution"
    /\ activeNav' = "workflow"
    /\ monitor' = 0
    /\ logs' = <<>>
    /\ isRunning' = FALSE
    /\ waitingForManual' = Undefined
    /\ stopped' = FALSE
    /\ UNCHANGED <<mounts, execution_status, timing_logic, manualInputRef, runs>>
    /\ UNCHANGED <<editorVars, layoutVars, storeVars, connectorVars, generateVars>>

\* a workflow of 1..MaxRunSteps steps on the execution page, no run yet
InitRun ==
    /\ \E n \in 1..MaxRunSteps :
        /\ EditorInitAt([i \in 1..n |->
                            [uid |-> i, step_id |-> i, depends_on |-> {}, cfg |-> i]],
                        [i \in 1..n |-> {}])
        /\ execution_status = [u \in 1..n |-> ""]
        /\ timing_logic \in [1..n -> {"Manual", "Auto"}]
        /\ logs = [id \in 1..n |-> "pending"]
    /\ activeNav = "execution"
    /\ monitor = 1
    /\ mounts = 1
    /\ isRunning = FALSE
    /\ waitingForManual = Undefined
    /\ manualInputRef = <<{}>>
    /\ runs = <<>>
    /\ stopped = FALSE
    /\ LayoutIdle
    /\ StoreInit
    /\ ConnectorsIdle
    /\ GenerateIdle

NextMonitor ==
    \/ handleStart
    \/ Stop
    \/ \E i \in 1..Len(steps) : confirmManualStep(steps[i].step_id)
    \/ \E k \in 1..Len(runs) : intervalFires(k)
    \/ \E k \in 1..Len(runs), failed \in BOOLEAN : timeoutFires(k, failed)

\* the monitor, the two pages and the edits of the workflow page that make
\* no new step object
NextRun ==
    \/ NextMonitor
    \/ openExecution
    \/ leaveExecution
    \/ activeNav = "workflow" /\ \E i \in 1..Len(steps) : handleDeleteStep(steps[i].step_id)
    \/ activeNav = "workflow" /\ \E index \in 0..(MaxSteps - 1), dir \in {-1, 1} :
                                     moveStep(index, dir)

SpecRun == InitRun /\ [][NextRun]_vars

\* the timers of simulateStep fire (setTimeout, and setInterval every 200 ms),
\* and the user presses Trigger Step on a step that keeps asking for it
RunFairness ==
    /\ \A k \in 1..MaxRuns :
          WF_vars(k <= Len(runs) /\ \E failed \in BOOLEAN : timeoutFires(k, failed))
    /\ \A k \in 1..MaxRuns : WF_vars(k <= Len(runs) /\ intervalFires(k))
    /\ SF_vars(\E i \in 1..Len(steps) : confirmManualStep(steps[i].step_id))

\* the mounted monitor alone, its timers firing
SpecRunFair == InitRun /\ [][NextMonitor]_vars /\ RunFairness

(***************************************************************************)
(* Template store (dbService.ts 194-332).  A template is a record          *)
(* [id, name, description, workflow, createdAt, updatedAt, tags, versions]; *)
(* a version is [id, version, workflow, savedAt, changeNote].  An id       *)
(* `template_${Date.now()}` or `ver_${Date.now()}` is the clock reading it *)
(* was built from; a timestamp is a clock reading; a workflow is one of    *)
(* Workflows; a name is the sequence of its parts (<<>> is the empty       *)
(* string), so that `${name} (Copy)` appends one part.                     *)
(***************************************************************************)
Workflows == {"g1", "g2"}

BaseNames == {<<"a">>}

CopySuffix == " (Copy)"

\* the names a caller of saveTemplate may type
SaveNames == UNION {{n, Append(n, CopySuffix)} : n \in BaseNames}

\* (description, tags, changeNote) a caller of saveTemplate may give: the
\* defaults of the three parameters, or a value for each
SaveDetails == {<<"", <<>>, <<"Initial save">>>>, <<"d", <<"t">>, <<"n">>>>}

\* the template ids a caller may name: those in the store, and 0 for any id
\* that is in no template (no id is 0); likewise the version ids
NamedIds == {0} \cup {templates[i].id : i \in 1..Len(templates)}

NamedVersionIds ==
    {0} \cup UNION {{templates[i].versions[k].id : k \in 1..Len(templates[i].versions)}
                    : i \in 1..Len(templates)}

\* a clock reading of a call: the clock never runs backwards, and two calls
\* may fall within the same millisecond
Readings == {t \in {now, now + 1} : t <= MaxClock}

\* templates.find(t => t.name === name): 1-based index of the first match, 0 if none
FindByName(ts, name) ==
    IF \E i \in 1..Len(ts) : ts[i].name = name
    THEN CHOOSE i \in 1..Len(ts) :
            ts[i].name = name /\ \A j \in 1..(i - 1) : ts[j].name # name
    ELSE 0

\* templates.findIndex(t => t.id === id): 1-based index of the first match, 0 if none
FindIndexById(ts, id) ==
    IF \E i \in 1..Len(ts) : ts[i].id = id
    THEN CHOOSE i \in 1..Len(ts) :
            ts[i].id = id /\ \A j \in 1..(i - 1) : ts[j].id # id
    ELSE 0

\* a version lookup that takes the first version of the chain, whatever its id
FindVersionAnyId(vs, versionId) == IF Len(vs) > 0 THEN 1 ELSE 0

\* versions.find(v => v.id === versionId): 1-based index of the first match, 0 if none
FindVersion(vs, versionId) ==
    IF \E i \in 1..Len(vs) : vs[i].id = versionId
    THEN CHOOSE i \in 1..Len(vs) :
            vs[i].id = versionId /\ \A j \in 1..(i - 1) : vs[j].id # versionId
    ELSE 0

\* a version number that does not count the chain
NextVersionNumberStuck(vs) == 1

\* (versions.length || 0) + 1
NextVersionNumber(vs) == Len(vs) + 1

\* what every store call records: the clock reading, the call, the store before
StoreCall(t, o) ==
    /\ storeOps < MaxStoreOps
    /\ storeOps' = storeOps + 1
    /\ now' = t
    /\ storeOp' = o
    /\ prevTemplates' = templates

\* saveTemplate(workflow, name, description, tags, changeNote), called at clock reading t
saveTemplate(workflow, name, description, tags, changeNote, t) ==
    LET e == FindByName(templates, name)
    IN  /\ StoreCall(t, [NoStoreOp EXCEPT !.kind = "save", !.name = name,
                            !.workflow = workflow, !.changeNote = changeNote])
        /\ IF e # 0
           THEN LET existing == templates[e]
                    newVersion == [id |-> t,
                                   version |-> NextVersionNumber(existing.versions),
                                   workflow |-> existing.workflow,
                                   savedAt |-> existing.updatedAt,
                                   changeNote |-> changeNote]
                    updated == [existing EXCEPT
                                   !.workflow = workflow,
                                   !.description = IF description # "" THEN description ELSE @,
                                   !.tags = IF Len(tags) # 0 THEN tags ELSE @,
                                   !.updatedAt = t,
                                   !.versions = Append(@, newVersion)]
                    idx == FindIndexById(templates, existing.id)
                IN  /\ Len(existing.versions) < MaxVersions
                    /\ templates' = [templates EXCEPT ![idx] = updated]
                    /\ result' = <<updated>>
           ELSE LET created == [id |-> t, name |-> name, description |-> description,
                                workflow |-> workflow, createdAt |-> t, updatedAt |-> t,
                                tags |-> tags, versions |-> <<>>]
                IN  /\ Len(templates) < MaxTemplates
                    /\ templates' = Append(templates, created)
                    /\ result' = <<created>>
        /\ UNCHANGED file
        /\ UNCHANGED <<editorVars, layoutVars, connectorVars, generateVars, runVars>>

\* deleteTemplate(id)
deleteTemplate(id) ==
    /\ StoreCall(now, [NoStoreOp EXCEPT !.kind = "delete", !.id = id])
    /\ templates' = SelectSeq(templates, LAMBDA x : x.id # id)
    /\ result' = <<>>
    /\ UNCHANGED file
    /\ UNCHANGED <<editorVars, layoutVars, connectorVars, generateVars, runVars>>

\* cloneTemplate(id), called at clock reading t
cloneTemplate(id, t) ==
    LET o == FindIndexById(templates, id)
    IN  /\ StoreCall(t, [NoStoreOp EXCEPT !.kind = "clone", !.id = id])
        /\ IF o = 0
           THEN /\ result' = <<>>
                /\ UNCHANGED templates
           ELSE LET original == templates[o]
                    cloned == [original EXCEPT
                                  !.id = t,
                                  !.name = Append(@, CopySuffix),
                                  !.createdAt = t,
                                  !.updatedAt = t,
                                  !.versions = <<>>]
                IN  /\ Len(templates) < MaxTemplates
                    /\ Len(original.name) <= MaxCopies
                    /\ templates' = Append(templates, cloned)
                    /\ result' = <<cloned>>
        /\ UNCHANGED file
        /\ UNCHANGED <<editorVars, layoutVars, connectorVars, generateVars, runVars>>

\* restoreTemplateVersion(templateId, versionId), called at clock reading t
restoreTemplateVersion(templateId, versionId, t) ==
    LET idx == FindIndexById(templates, templateId)
    IN  /\ StoreCall(t, [NoStoreOp EXCEPT !.kind = "restore", !.id = templateId,
                            !.versionId = versionId])
        /\ IF idx = 0
           THEN /\ result' = <<>>
                /\ UNCHANGED templates
           ELSE LET template == templates[idx]
                    v == FindVersion(template.versions, versionId)
                IN  IF v = 0
                    THEN /\ result' = <<>>
                         /\ UNCHANGED templates
                    ELSE LET ver == template.versions[v]
                             snapshot == [id |-> t,
                                          version |-> NextVersionNumber(template.versions),
                                          workflow |-> template.workflow,
                                          savedAt |-> template.updatedAt,
                                          changeNote |-> <<"Auto snapshot before restore to v", ver.version>>]
                             restored == [template EXCEPT
                                             !.workflow = ver.workflow,
                                             !.updatedAt = t,
                                             !.versions = Append(@, snapshot)]
                         IN  /\ Len(template.versions) < MaxVersions
                             /\ templates' = [templates EXCEPT ![idx] = restored]
                             /\ result' = <<restored>>
        /\ UNCHANGED file
        /\ UNCHANGED <<editorVars, layoutVars, connectorVars, generateVars, runVars>>

\* the fields of a template record in its JSON text
TemplateFields ==
    {"id", "name", "description", "workflow", "createdAt", "updatedAt", "tags", "versions"}

\* JSON.stringify(template, null, 2): a well-formed text holding every field
\* of the template (all of them strings, numbers and arrays, which the text
\* keeps as they are)
Stringify(template) == [valid |-> TRUE, fields |-> TemplateFields, value |-> template]

\* a text that JSON.parse rejects
NotJSON == [valid |-> FALSE, fields |-> {}, value |-> <<>>]

\* exportTemplateToJSON(id); TemplateLibrary.handleExport downloads the text
exportTemplateToJSON(id) ==
    LET i == FindIndexById(templates, id)
    IN  /\ StoreCall(now, [NoStoreOp EXCEPT !.kind = "export", !.id = id])
        /\ IF i = 0
           THEN /\ result' = <<>>
                /\ UNCHANGED file
           ELSE /\ result' = <<templates[i]>>
                /\ file' = <<Stringify(templates[i])>>
        /\ UNCHANGED templates
        /\ UNCHANGED <<editorVars, layoutVars, connectorVars, generateVars, runVars>>

\* the files a user may pick for import: the exported text as it is or with
\* some fields removed by hand, and a file that is not JSON
Removals == {{}, {"name"}, {"workflow"}, {"versions", "tags", "createdAt"}}

ImportFiles ==
    {NotJSON} \cup
    {[file[k] EXCEPT !.fields = @ \ r] : k \in 1..Len(file), r \in Removals}

\* a shape test that looks at the name only
MissingNameOnly(json) ==
    ~("name" \in json.fields /\ json.value.name # <<>>)

\* !parsed.name || !parsed.workflow, on a text that parsed
MissingNameOrWorkflow(json) ==
    ~("name" \in json.fields /\ json.value.name # <<>>) \/ ~("workflow" \in json.fields)

\* a default that replaces the value even when the field is present
AlwaysDefault(present, value, default) == default

\* parsed.field || default
OrDefault(present, value, default) == IF present THEN value ELSE default

\* importTemplateFromJSON(json), called at clock reading t
importTemplateFromJSON(json, t) ==
    /\ StoreCall(t, [NoStoreOp EXCEPT !.kind = "import", !.json = <<json>>])
    /\ IF ~json.valid
       THEN /\ result' = <<>>
            /\ UNCHANGED templates
       ELSE LET parsed == json.value
                has(f) == f \in json.fields
            IN  IF MissingNameOrWorkflow(json)
                THEN /\ result' = <<>>
                     /\ UNCHANGED templates
                ELSE LET imported ==
                             [parsed EXCEPT
                                 !.id = t,
                                 !.description = IF has("description") THEN @ ELSE "",
                                 !.createdAt = OrDefault(has("createdAt"), @, t),
                                 !.updatedAt = t,
                                 !.versions = OrDefault(has("versions"), @, <<>>),
                                 !.tags = OrDefault(has("tags"), @, <<>>)]
                     IN  /\ Len(templates) < MaxTemplates
                         /\ templates' = Append(templates, imported)
                         /\ result' = <<imported>>
    /\ UNCHANGED file
    /\ UNCHANGED <<editorVars, layoutVars, connectorVars, generateVars, runVars>>

InitStore ==
    /\ EditorIdle
    /\ LayoutIdle
    /\ StoreInit
    /\ ConnectorsIdle
    /\ GenerateIdle
    /\ RunIdle

NextStore ==
    \/ \E w \in Workflows, n \in SaveNames, d \in SaveDetails, t \in Readings :
         saveTemplate(w, n, d[1], d[2], d[3], t)
    \/ \E id \in NamedIds : deleteTemplate(id)
    \/ \E id \in NamedIds, t \in Readings : cloneTemplate(id, t)
    \/ \E id \in NamedIds, v \in NamedVersionIds, t \in Readings : restoreTemplateVersion(id, v, t)
    \/ \E id \in NamedIds : exportTemplateToJSON(id)
    \/ \E json \in ImportFiles, t \in Readings : importTemplateFromJSON(json, t)

SpecStore == InitStore /\ [][NextStore]_vars

(***************************************************************************)
(* Properties of a graph by value (a sequence of records with uid,         *)
(* step_id, depends_on, prior_step_ids).                                   *)
(***************************************************************************)
Ids(g) == {g[i].step_id : i \in 1..Len(g)}

Dense(g) == \A i \in 1..Len(g) : g[i].step_id = i

Refs(s) == s.depends_on \cup s.prior_step_ids

NoDangling(g) == \A i \in 1..Len(g) : Refs(g[i]) \subseteq Ids(g)

\* depends_on, or the implicit edge from the preceding step when it is empty
EffectivePreds(g, i) ==
    IF g[i].depends_on # {} THEN g[i].depends_on
    ELSE IF i > 1 THEN {g[i - 1].step_id} ELSE {}

PredsOfId(g, id) ==
    UNION {EffectivePreds(g, i) : i \in {j \in 1..Len(g) : g[j].step_id = id}}

\* a finite relation has a cycle (a self-loop included) iff some non-empty
\* set of nodes has, for each member, a predecessor inside the set
Cyclic(g) ==
    \E S \in SUBSET Ids(g) : S # {} /\ \A id \in S : PredsOfId(g, id) \cap S # {}

StructurallyValid(g) == Dense(g) /\ NoDangling(g) /\ ~Cyclic(g)

\* the step a reference names, by identity; a reference naming no step
\* stands for itself, negated
UidOf(g, id) ==
    IF id \in Ids(g) THEN (CHOOSE s \in Range(g) : s.step_id = id).uid ELSE 0 - id

Names(g, ids) == {UidOf(g, id) : id \in ids}

IndexOfUid(g, u) == CHOOSE i \in 1..Len(g) : g[i].uid = u

HasUid(g, u) == \E i \in 1..Len(g) : g[i].uid = u

EditKinds == {"insert", "save", "delete", "move", "drop"}

(***************************************************************************)
(* Claims                                                                  *)
(***************************************************************************)

\* C1: after any sequence of insertions, deletions, adjacent moves,
\* drag-drop moves, undo and redo from a graph with ids 1..N, the step at
\* position i has step_id i (ids exactly 1..N, no gap, no duplicate).
C1_DenseIds == \A i \in 1..Len(steps) : steps[i].step_id = i

\* a step other than the last was deleted, so the survivors were renumbered
C1_Witness ==
    /\ op.kind = "delete"
    /\ op.arg < Len(prev)
    /\ Len(steps) >= 2
    /\ Len(steps) = Len(prev) - 1

\* C2: in every graph reachable from a valid graph by insertions, deletions
\* and moves, every id in a depends_on or prior_step_ids set is the step_id
\* of a step of that graph.
C2_NoDanglingReference == NoDangling(Graph)

\* the references of ids after deleting step k, as the claim states them
ShiftAfterDelete(ids, k) == {j \in ids : j < k} \cup {j - 1 : j \in {x \in ids : x > k}}

\* C3: deleting step k from ids 1..N yields ids 1..N-1; no set keeps a
\* reference to the deleted step, a reference j > k has become j - 1 and a
\* reference below k is unchanged.
C3_DeleteRemapsReferences ==
    (op.kind = "delete" /\ Dense(prev) /\ op.arg \in Ids(prev)) =>
        LET k == op.arg
        IN  /\ Len(Graph) = Len(prev) - 1
            /\ Dense(Graph)
            /\ \A i \in 1..Len(Graph) :
                LET old == prev[IF i < k THEN i ELSE i + 1]
                IN  /\ Graph[i].uid = old.uid
                    /\ Graph[i].depends_on = ShiftAfterDelete(old.depends_on, k)
                    /\ Graph[i].prior_step_ids = ShiftAfterDelete(old.prior_step_ids, k)

\* C4: in every graph reachable by edits from an acyclic graph, depends_on
\* plus the implicit edge from the preceding step (for a non-first step with
\* empty depends_on) has no cycle and no step that is its own predecessor.
C4_Acyclic == ~Cyclic(Graph)

\* C5: an edit whose result would hold a cycle, a self-dependency, a
\* duplicate id or a dangling reference is refused: the graph after it is
\* the graph before it.
C5_InvalidEditRefused ==
    op.kind \in EditKinds => (StructurallyValid(Graph) \/ Graph = prev)

\* C6: after a move (adjacent swap or drag-drop) in a graph whose references
\* are all valid, every step's depends_on and prior_step_ids name the same
\* steps, by identity, as before; no reference is added or lost.
C6_MovePreservesReferences ==
    (op.kind \in {"move", "drop"} /\ Dense(prev) /\ NoDangling(prev)) =>
        /\ Len(Graph) = Len(prev)
        /\ NoDangling(Graph)
        /\ \A i \in 1..Len(Graph) :
            /\ HasUid(prev, Graph[i].uid)
            /\ LET old == prev[IndexOfUid(prev, Graph[i].uid)]
               IN  /\ Names(Graph, Graph[i].depends_on) = Names(prev, old.depends_on)
                   /\ Cardinality(Graph[i].depends_on) = Cardinality(old.depends_on)
                   /\ Names(Graph, Graph[i].prior_step_ids) = Names(prev, old.prior_step_ids)
                   /\ Cardinality(Graph[i].prior_step_ids) = Cardinality(old.prior_step_ids)

\* a step was dragged across two others in a valid graph, and some step that
\* has both kinds of reference had its depends_on renumbered
C6_Witness ==
    /\ op.kind = "drop"
    /\ op.arg = 0 /\ op.arg2 = 2
    /\ Dense(prev) /\ NoDangling(prev)
    /\ \E i \in 1..Len(Graph) :
        /\ Graph[i].prior_step_ids # {}
        /\ Graph[i].depends_on # {}
        /\ HasUid(prev, Graph[i].uid)
        /\ Graph[i].depends_on # prev[IndexOfUid(prev, Graph[i].uid)].depends_on

\* C7: after inserting a step after an anchor that is not the last step,
\* every pre-existing step's depends_on and prior_step_ids still name the
\* same steps, by identity; no reference names the inserted step or the
\* referencing step itself.
C7_InsertPreservesReferences ==
    (/\ op.kind = "insert"
     /\ Dense(prev) /\ NoDangling(prev)
     /\ op.arg \in Ids(prev)
     /\ op.arg < Len(prev)) =>
        \A i \in 1..Len(Graph) :
            HasUid(prev, Graph[i].uid) =>
                LET old == prev[IndexOfUid(prev, Graph[i].uid)]
                IN  /\ Names(Graph, Graph[i].depends_on) = Names(prev, old.depends_on)
                    /\ Names(Graph, Graph[i].prior_step_ids) = Names(prev, old.prior_step_ids)

(***************************************************************************)
(* Claims on buildColumns                                                  *)
(***************************************************************************)
\* the number of places (column, position) at which step s occurs
Occurrences(cols, s) ==
    Cardinality({<<c, k>> \in (1..Len(cols)) \X (1..MaxLayoutSteps) :
                    k <= Len(cols[c]) /\ cols[c][k] = s})

\* C8: for a sequence with unique ids, buildColumns returns only non-empty
\* columns and every input step appears in exactly one column.
C8_EveryStepInOneColumn ==
    rendered =>
        /\ \A c \in 1..Len(columns) : Len(columns[c]) > 0
        /\ \A i \in 1..Len(layoutSteps) : Occurrences(columns, layoutSteps[i]) = 1

\* C9: buildColumns on [A (group g), B (no group), C (group g)] returns the
\* two columns [[A, C], [B]]; a step lying between two steps of one group
\* still gets its own column.
C9_GroupWinsKeepsBetween ==
    rendered =>
        /\ \A g \in ParallelGroups :
            LET A == [step_id |-> 1, parallel_group |-> g]
                B == [step_id |-> 2, parallel_group |-> ""]
                C == [step_id |-> 3, parallel_group |-> g]
            IN  layoutSteps = <<A, B, C>> => columns = <<<<A, C>>, <<B>>>>
        /\ \A i, j, k \in 1..Len(layoutSteps) :
            (/\ i < j /\ j < k
             /\ layoutSteps[i].parallel_group \in ParallelGroups
             /\ layoutSteps[k].parallel_group = layoutSteps[i].parallel_group
             /\ layoutSteps[j].parallel_group = "") =>
                \E c \in 1..Len(columns) : columns[c] = <<layoutSteps[j]>>

\* C10: all steps that share a non-empty parallel_group tag are placed in
\* one single column, wherever they sit in the sequence; no two columns hold
\* steps with the same tag.
C10_GroupInOneColumn ==
    rendered =>
        \A g \in ParallelGroups :
            LET members == {i \in 1..Len(layoutSteps) : layoutSteps[i].parallel_group = g}
                holding == {c \in 1..Len(columns) :
                              \E k \in 1..Len(columns[c]) : columns[c][k].parallel_group = g}
            IN  /\ Cardinality(holding) <= 1
                /\ members # {} =>
                    \E c \in 1..Len(columns) :
                        \A i \in members : \E k \in 1..Len(columns[c]) :
                            columns[c][k] = layoutSteps[i]

\* the smallest index, in the sequence arr, of a member of the column col
Earliest(arr, col) ==
    LET at == {i \in 1..Len(arr) : \E k \in 1..Len(col) : col[k] = arr[i]}
    IN  CHOOSE i \in at : \A j \in at : i <= j

\* C11: the columns returned by buildColumns are ordered by the smallest
\* sequence index of their members: column x comes before column y exactly
\* when the earliest member of x precedes the earliest member of y.
C11_ColumnsOrderedByFirstMember ==
    rendered =>
        \A x, y \in 1..Len(columns) :
            (x < y) <=> (Earliest(layoutSteps, columns[x]) < Earliest(layoutSteps, columns[y]))

\* C12: buildColumns applied to the concatenation of the columns it returned
\* gives the same columns, with the same members in the same order.
C12_IdempotentOverFlattening ==
    [][rendered => columns' = columns]_vars

\* buildColumns has been applied to a flattened result that dropped a step
\* (so its ids are no longer the positions) and holds a group of two
C12_Witness ==
    /\ rendered
    /\ layoutSteps = Flatten(columns)
    /\ \E i \in 1..Len(layoutSteps) : layoutSteps[i].step_id # i
    /\ \E c \in 1..Len(columns) : Len(columns[c]) >= 2
    /\ Len(columns) >= 2

(***************************************************************************)
(* Claims on the template store                                            *)
(***************************************************************************)
\* the positions of the store ts holding a template named name
Named(ts, name) == {i \in 1..Len(ts) : ts[i].name = name}

\* chain b is chain a followed by exactly one version
OneAppended(a, b) == Len(b) = Len(a) + 1 /\ SubSeq(b, 1, Len(a)) = a

\* C13: save under a name no stored template has adds one template with an
\* empty version chain and the given graph as current; a save under a stored
\* name appends to that template exactly one version holding the graph stored
\* before (number = previous chain length + 1, timestamp = previous updated
\* time, note = the supplied note), makes the given graph current, and leaves
\* every other template as it was.
C13_SaveCreatesOrVersions ==
    storeOp.kind = "save" =>
        LET e == Named(prevTemplates, storeOp.name)
        IN  IF e = {}
            THEN /\ OneAppended(prevTemplates, templates)
                 /\ templates[Len(templates)].name = storeOp.name
                 /\ templates[Len(templates)].workflow = storeOp.workflow
                 /\ templates[Len(templates)].versions = <<>>
            ELSE /\ Len(templates) = Len(prevTemplates)
                 /\ \A i \in 1..Len(templates) : i \notin e => templates[i] = prevTemplates[i]
                 /\ \E i \in e :
                      LET old == prevTemplates[i]
                          new == templates[i]
                      IN  /\ new.name = old.name /\ new.id = old.id
                          /\ new.workflow = storeOp.workflow
                          /\ OneAppended(old.versions, new.versions)
                          /\ new.versions[Len(new.versions)].version = Len(old.versions) + 1
                          /\ new.versions[Len(new.versions)].workflow = old.workflow
                          /\ new.versions[Len(new.versions)].savedAt = old.updatedAt
                          /\ new.versions[Len(new.versions)].changeNote = storeOp.changeNote
                 /\ \A i \in e : templates[i] # prevTemplates[i] =>
                      \A j \in e : j # i => templates[j] = prevTemplates[j]

\* the positions of the store ts holding a template with the id
WithId(ts, id) == {i \in 1..Len(ts) : ts[i].id = id}

\* the positions of the chain vs holding a version with the id
VersionsWithId(vs, versionId) == {k \in 1..Len(vs) : vs[k].id = versionId}

\* C14: restore(T, v) with a known template T and a known version v of T
\* appends to T's chain exactly one version capturing the graph that was
\* current (number = previous chain length + 1, note naming v's number), sets
\* T's current graph to v's snapshot and leaves every other template alone.
C14_RestoreSnapshotsThenSwaps ==
    storeOp.kind = "restore" =>
        \A i \in WithId(prevTemplates, storeOp.id) :
            \A k \in VersionsWithId(prevTemplates[i].versions, storeOp.versionId) :
                LET old == prevTemplates[i]
                    v == old.versions[k]
                IN  /\ Len(templates) = Len(prevTemplates)
                    /\ \A j \in 1..Len(templates) : j # i => templates[j] = prevTemplates[j]
                    /\ OneAppended(old.versions, templates[i].versions)
                    /\ templates[i].versions[Len(old.versions) + 1].version = Len(old.versions) + 1
                    /\ templates[i].versions[Len(old.versions) + 1].workflow = old.workflow
                    /\ templates[i].versions[Len(old.versions) + 1].changeNote =
                           <<"Auto snapshot before restore to v", v.version>>
                    /\ templates[i].workflow = v.workflow
                    /\ templates[i].id = old.id /\ templates[i].name = old.name

\* C15: restore with an unknown template id or with a version id that is not
\* in that template's chain, and clone or export with an unknown template
\* id, return null and leave the store exactly as it was.
C15_UnknownIdIsNoOp ==
    LET unknownTemplate == WithId(prevTemplates, storeOp.id) = {}
        unknownVersion ==
            \A i \in WithId(prevTemplates, storeOp.id) :
                VersionsWithId(prevTemplates[i].versions, storeOp.versionId) = {}
    IN  (\/ storeOp.kind \in {"clone", "export"} /\ unknownTemplate
         \/ storeOp.kind = "restore" /\ (unknownTemplate \/ unknownVersion)) =>
            (result = <<>> /\ templates = prevTemplates)

\* restore named a stored template that has versions, and a version id that
\* is not in that template's chain
C15_Witness ==
    /\ storeOp.kind = "restore"
    /\ \E i \in WithId(prevTemplates, storeOp.id) :
          /\ prevTemplates[i].versions # <<>>
          /\ VersionsWithId(prevTemplates[i].versions, storeOp.versionId) = {}
    /\ \A i \in WithId(prevTemplates, storeOp.id) :
          VersionsWithId(prevTemplates[i].versions, storeOp.versionId) = {}
    /\ result = <<>>

\* C16: clone(T) leaves T and every other stored template unchanged and adds
\* exactly one template whose current graph is T's current graph, whose name
\* is derived from T's name and whose version chain is empty.
C16_CloneAddsOneLeavesRest ==
    storeOp.kind = "clone" =>
        \A i \in WithId(prevTemplates, storeOp.id) :
            /\ OneAppended(prevTemplates, templates)
            /\ templates[Len(templates)].workflow = prevTemplates[i].workflow
            /\ templates[Len(templates)].name = Append(prevTemplates[i].name, CopySuffix)
            /\ templates[Len(templates)].versions = <<>>

\* chain a is a prefix of chain b
IsPrefix(a, b) == Len(a) <= Len(b) /\ SubSeq(b, 1, Len(a)) = a

\* C17: the version chain is append-only: no operation other than deleting
\* the whole template removes a template, shortens a chain or changes a
\* version; the chain before a save or restore is a prefix of the chain after.
C17_ChainAppendOnly ==
    storeOp.kind \in {"save", "restore", "clone", "import", "export"} =>
        /\ Len(prevTemplates) <= Len(templates)
        /\ \A i \in 1..Len(prevTemplates) :
              IsPrefix(prevTemplates[i].versions, templates[i].versions)

\* C18: in every template of a store built from empty, the k-th version of
\* the chain has version number k.
C18_VersionNumbersDense ==
    \A i \in 1..Len(templates) :
        \A k \in 1..Len(templates[i].versions) : templates[i].versions[k].version = k

\* a restore has just appended the third version of a chain
C18_Witness ==
    /\ storeOp.kind = "restore"
    /\ \E i \in 1..Len(templates) :
          /\ Len(templates[i].versions) = 3
          /\ Len(templates[i].versions[3].changeNote) = 2
          /\ Len(prevTemplates) = Len(templates)
          /\ Len(prevTemplates[i].versions) = 2

\* C19: no two stored templates have the same name.
C19_NamesUnique ==
    \A i, j \in 1..Len(templates) : i # j => templates[i].name # templates[j].name

\* C20: no two stored templates have the same id, and no two versions of one
\* chain have the same id, also when calls fall within one clock reading.
C20_IdsUnique ==
    /\ \A i, j \in 1..Len(templates) : i # j => templates[i].id # templates[j].id
    /\ \A i \in 1..Len(templates) :
          \A k, l \in 1..Len(templates[i].versions) :
              k # l => templates[i].versions[k].id # templates[i].versions[l].id

\* the text handed to the last import
ImportedText == storeOp.json[1]

\* C21: import of a text that cannot be parsed, or of a record whose name or
\* workflow is absent, returns null and leaves the store unchanged.
C21_MalformedImportIsNoOp ==
    (/\ storeOp.kind = "import"
     /\ \/ ~ImportedText.valid
        \/ "name" \notin ImportedText.fields
        \/ "workflow" \notin ImportedText.fields) =>
        (result = <<>> /\ templates = prevTemplates)

\* a well-formed record with a name but without its workflow was imported
\* into a store that holds a template
C21_Witness ==
    /\ storeOp.kind = "import"
    /\ ImportedText.valid
    /\ "name" \in ImportedText.fields
    /\ "workflow" \notin ImportedText.fields
    /\ prevTemplates # <<>>

\* C22: import of a record that has a name and a workflow adds exactly one
\* template, with its id and update time assigned by the import, the record's
\* name, description, graph and embedded version chain kept, absent tags or
\* versions defaulted to empty, and the existing templates unchanged; the
\* text produced by export(T) gives a template equal to T in name,
\* description, tags, graph and version chain.
C22_ImportAddsRecord ==
    (/\ storeOp.kind = "import"
     /\ ImportedText.valid
     /\ "name" \in ImportedText.fields
     /\ "workflow" \in ImportedText.fields) =>
        LET record == ImportedText.value
            new == templates[Len(templates)]
        IN  /\ OneAppended(prevTemplates, templates)
            /\ result = <<new>>
            /\ new.id = now /\ new.updatedAt = now
            /\ new.name = record.name
            /\ new.description = record.description
            /\ new.workflow = record.workflow
            /\ new.versions = IF "versions" \in ImportedText.fields THEN record.versions ELSE <<>>
            /\ new.tags = IF "tags" \in ImportedText.fields THEN record.tags ELSE <<>>
            /\ (file # <<>> /\ ImportedText = file[1]) =>
                   /\ file[1].fields = TemplateFields
                   /\ new.versions = file[1].value.versions
                   /\ new.tags = file[1].value.tags

\* the text exported from a template with a version and a tag was imported
C22_Witness ==
    /\ storeOp.kind = "import"
    /\ file # <<>> /\ ImportedText = file[1]
    /\ file[1].value.versions # <<>>
    /\ file[1].value.tags # <<>>
    /\ Len(templates) = Len(prevTemplates) + 1

(***************************************************************************)
(* Claims on positions, undo and redo                                      *)
(***************************************************************************)
\* the steps present both before and after the last edit keep their order
OrderKept(before, after, except) ==
    \A i, j \in 1..Len(before) :
        (/\ i < j
         /\ before[i].uid \notin except /\ before[j].uid \notin except
         /\ HasUid(after, before[i].uid) /\ HasUid(after, before[j].uid)) =>
            IndexOfUid(after, before[i].uid) < IndexOfUid(after, before[j].uid)

\* C27: an inserted step lands immediately after its anchor, or at the end
\* when there is no anchor (on an empty graph it is step 1 with no
\* dependencies); insertion, deletion and move keep the relative order of
\* every pair of steps other than the inserted, deleted or moved one.
C27_InsertPositionAndOrder ==
    /\ (op.kind = "insert" /\ Dense(prev)) =>
          /\ Len(Graph) = Len(prev) + 1
          /\ OrderKept(prev, Graph, {})
          /\ \A i \in 1..Len(prev) : HasUid(Graph, prev[i].uid)
          /\ IF op.arg = Undefined
             THEN /\ ~HasUid(prev, Graph[Len(Graph)].uid)
                  /\ Len(prev) = 0 =>
                        (Graph[1].step_id = 1 /\ Graph[1].depends_on = {})
             ELSE /\ op.arg \in Ids(prev)
                  /\ Graph[op.arg].uid = prev[op.arg].uid
                  /\ ~HasUid(prev, Graph[op.arg + 1].uid)
    /\ op.kind = "delete" =>
          /\ OrderKept(prev, Graph, {})
          /\ \A i \in 1..Len(prev) :
                prev[i].step_id # op.arg => HasUid(Graph, prev[i].uid)
    /\ op.kind \in {"move", "drop"} =>
          /\ OrderKept(prev, Graph, {prev[op.arg + 1].uid})
          /\ \A i \in 1..Len(prev) : HasUid(Graph, prev[i].uid)

\* a step was inserted after an anchor that was not the last step
C27_Witness ==
    /\ op.kind = "insert"
    /\ op.arg # Undefined
    /\ Len(prev) >= 2
    /\ op.arg < Len(prev)
    /\ ~HasUid(prev, Graph[op.arg + 1].uid)

\* C28: undo reverts exactly the most recent edit: when the last change of
\* the step sequence was an edit from S to S', one undo makes S current,
\* whatever the number of edits before it.
C28_UndoRevertsLastEdit ==
    [][(/\ op.kind \in EditKinds
        /\ op'.kind = "undo"
        /\ historyIdx' = historyIdx - 1) => Graph' = prev]_vars

\* C29: undo immediately followed by redo restores the step sequence that
\* was current before the undo.
C29_UndoRedoRestores ==
    [][(/\ op.kind = "undo"
        /\ op'.kind = "redo"
        /\ historyIdx' = historyIdx + 1) => Graph' = prev]_vars

\* C30: a move leaves every step sequence already recorded in the history
\* unchanged, prior_step_ids of each recorded step included.
C30_HistoryEntriesImmutable ==
    [][(/\ edits' = edits + 1
        /\ op'.kind \in {"move", "drop"}) =>
            \A j \in 1..Min(Len(history), Len(history')) :
                history'[j] = history[j] =>
                    Resolve(history[j], cfgs') = Resolve(history[j], cfgs)]_vars


(***************************************************************************)
(* Claims on the connector edges                                           *)
(***************************************************************************)
\* the predecessors the drawing should show for the step at idx: the ids of
\* depends_on when it has any, else the preceding step, else none
ExpectedPreds(arr, idx) ==
    IF arr[idx].depends_on.defined /\ Len(arr[idx].depends_on.ids) > 0
    THEN Range(arr[idx].depends_on.ids)
    ELSE IF idx > 1 THEN {arr[idx - 1].step_id} ELSE {}

\* C25: for every step whose card and predecessors' cards are laid out, the
\* edges emitted into it come from exactly the ids of depends_on when that
\* is non-empty, else from the immediately preceding step when the step is
\* not first, else there is none; no (predecessor, step) pair is emitted
\* twice.
C25_EdgesAreThePredecessors ==
    drawn =>
        \A idx \in 1..Len(dataSteps) :
            (/\ dataSteps[idx].step_id \in nodeRects
             /\ ExpectedPreds(dataSteps, idx) \subseteq nodeRects) =>
                LET into == SelectSeq(connectorPaths,
                                      LAMBDA e : e.toId = dataSteps[idx].step_id)
                IN  /\ {into[k].fromId : k \in 1..Len(into)} = ExpectedPreds(dataSteps, idx)
                    /\ Len(into) = Cardinality(ExpectedPreds(dataSteps, idx))

\* C26: no edge is emitted from an id that is not the id of a step of the
\* current graph, also while the card positions cached before a deletion
\* have not been measured again.
C26_NoEdgeFromMissingStep ==
    LET paths == ConnectorPathsFrom(DataOf(steps), 1, nodeRects)
    IN  \A k \in 1..Len(paths) : paths[k].fromId \in Ids(Graph)

(***************************************************************************)
(* Claims on generation                                                    *)
(***************************************************************************)
\* the step of handleGenerate in which the pending call settles
Settles == isLoading /\ ~isLoading'

EditorKept ==
    /\ steps' = steps
    /\ history' = history
    /\ historyIdx' = historyIdx
    /\ cfgs' = cfgs

\* C23: a returned graph whose ids are not exactly 1..N, or with a
\* depends_on or prior_step_ids entry that names no step of it, is
\* rejected: the current graph and the undo history stay as they were.
C23_MalformedGraphRejected ==
    [][(/\ Settles
        /\ response'.kind = "json"
        /\ ~(Dense(response'.graph) /\ NoDangling(response'.graph))) =>
            EditorKept]_vars

\* C24: when the generation call throws, returns no content or returns
\* unparsable content, the current graph and the undo history are what they
\* were (and the error is set); the graph changes in a settling step only
\* to the whole graph of a parsed result, as the single history entry.
C24_FailedGenerationChangesNothing ==
    [][Settles =>
        /\ response'.kind \in {"throws", "empty", "unparsable"} =>
              (EditorKept /\ error' # NoError)
        /\ ~EditorKept =>
              /\ response'.kind = "json"
              /\ Len(Graph') = Len(response'.graph)
              /\ \A i \in 1..Len(Graph') :
                    /\ Graph'[i].step_id = response'.graph[i].step_id
                    /\ Graph'[i].depends_on = response'.graph[i].depends_on
                    /\ Graph'[i].prior_step_ids = response'.graph[i].prior_step_ids
              /\ history' = <<steps'>>
              /\ historyIdx' = 0]_vars

\* a call failed on unparsable content after the graph had been edited
C24_Witness ==
    /\ ~isLoading
    /\ response.kind = "unparsable"
    /\ error = "SyntaxError"
    /\ op.kind \in EditKinds
    /\ Len(history) > 1
    /\ historyIdx > 0

(***************************************************************************)
(* Claims on the bounds of the undo history                                *)
(***************************************************************************)
\* C35: with a workflow loaded, the history holds 1 to 50 entries and
\* 0 <= historyIdx <= (number of entries) - 1 after any sequence of
\* generate, new, load-template, edit, undo and redo; an edit keeps the
\* entries up to the index only and adds one after them.
C35_HistoryBounds ==
    /\ [](/\ Len(history) \in 1..HistoryLimit
          /\ historyIdx \in 0..(Len(history) - 1))
    /\ [][edits' = edits + 1 =>
            /\ Len(history') = Min(historyIdx + 2, HistoryLimit)
            /\ historyIdx' = Len(history') - 1
            /\ history'[Len(history')] = steps
            /\ (historyIdx + 2 <= HistoryLimit) =>
                  SubSeq(history', 1, historyIdx + 1) = SubSeq(history, 1, historyIdx + 1)]_vars

\* an edit was made at the last index of a full history, and another with
\* entries beyond the index
C35_Witness ==
    /\ op.kind \in EditKinds
    /\ edits = 2
    /\ Len(history) = HistoryLimit
    /\ historyIdx = HistoryLimit - 1


\* the step of a run: one that changes a run record already started
RunStep == runs' # runs /\ Len(runs') = Len(runs)

\* C31: a run never overwrites a structural edit: a status update of a run
\* leaves the steps, their order, ids and dependencies as they are in the
\* graph current at the time of the update.
C31_RunKeepsStructure == [][RunStep => Graph' = Graph]_vars

\* the run of index k returns after its last step, none having failed
FinishesClean(k) ==
    /\ k <= Len(runs)
    /\ runs[k].pc # "ended"
    /\ runs'[k].pc = "ended"
    /\ runs'[k].i = Len(runs'[k].wf)

\* C32: when a run finishes with no failed step, every step of the current
\* graph has execution_status 'done'.
C32_AllDoneAfterCleanRun ==
    [][\A k \in 1..MaxRuns :
          FinishesClean(k) =>
              \A i \in 1..Len(steps') : execution_status'[steps'[i].uid] = "done"]_vars

\* the status the card of step id shows: logs[step.step_id] || pending
LogOf(lg, id) == IF id \in DOMAIN lg THEN lg[id] ELSE "pending"

\* C33: in the execution log at most one step is 'running' at any time, and
\* a step becomes 'running' only when every step before it is 'done'.
C33_OneRunningInOrder ==
    /\ [](Cardinality({id \in DOMAIN logs : logs[id] = "running"}) <= 1)
    /\ [][\A i \in 1..Len(steps') :
             (/\ LogOf(logs', steps'[i].step_id) = "running"
              /\ LogOf(logs, steps'[i].step_id) # "running")
             => \A j \in 1..(i - 1) : LogOf(logs', steps'[j].step_id) = "done"]_vars

\* C34: after Stop is pressed during a run, no step changes status, in the
\* log or in the graph, until Run is pressed again.
C34_StopFreezesStatuses ==
    [][(stopped /\ stopped') =>
          /\ logs' = logs
          /\ [i \in 1..Len(steps') |-> execution_status'[steps'[i].uid]]
                = [i \in 1..Len(steps) |-> execution_status[steps[i].uid]]]_vars



\* run k returns in this step
Ends(k) ==
    /\ k <= Len(runs')
    /\ runs'[k].pc = "ended"
    /\ k <= Len(runs) => runs[k].pc # "ended"

\* the card of step id changes to status in this step
Becomes(id, status) == LogOf(logs', id) = status /\ LogOf(logs, id) # status

\* C36: with the timers firing and every awaited Manual step eventually
\* confirmed, every started run eventually ends, and it ends with isRunning
\* false, right after its first failed step or after its last step; a Manual
\* step starts running only once it is confirmed, and every step after a
\* failed step stays 'pending'.
C36_RunsEnd ==
    /\ \A k \in 1..MaxRuns : (Len(runs) >= k) ~> (Len(runs) >= k /\ runs[k].pc = "ended")
    /\ [][\A k \in 1..MaxRuns :
             Ends(k) =>
                 /\ isRunning' = FALSE
                 /\ \/ runs'[k].i = Len(runs'[k].wf)
                    \/ LogOf(logs', StepAt(runs'[k]).step_id) = "failed"]_vars
    /\ [][\A i \in 1..Len(steps') :
             /\ Becomes(steps'[i].step_id, "failed") => \E k \in 1..MaxRuns : Ends(k)
             /\ (Becomes(steps'[i].step_id, "running")
                    /\ timing_logic[steps'[i].uid] = "Manual")
                => steps'[i].step_id \in manualInputRef[monitor]]_vars
    /\ [](\A i \in 1..Len(steps), j \in 1..Len(steps) :
             (i < j /\ LogOf(logs, steps[i].step_id) = "failed")
                => LogOf(logs, steps[j].step_id) = "pending")


=============================================================================
